---- MODULE Spec2Model ----
(***************************************************************************)
(* A model of zvec-native: the process-wide registry of collections        *)
(* (src/src/lib.rs), the collection with its identity maps, tombstones and *)
(* HNSW graph (src/src/collection.rs) and the snapshot codec               *)
(* (src/src/persistence.rs).                                               *)
(*                                                                         *)
(* The HNSW graph of the hnsw_rs crate is modelled as the set of points    *)
(* inserted into it, and its search as the exact k nearest points by       *)
(* cosine distance, ties broken by ascending internal id.                  *)
(***************************************************************************)
EXTENDS Integers, Sequences, FiniteSets, TLC

(***************************************************************************)
(* Bounds of the model.                                                    *)
(***************************************************************************)
\* next_id never grows past MaxNextId: inserts are disabled there.
MaxNextId == 2
\* search is called with k in 0..MaxK.
MaxK == 2
\* Under SpecConc at most MaxOps mutating calls take the write lock.
MaxOps == 3

Paths == {"p"}
ReaderThreads == {"r1", "r2"}
ExtIds == {"a", "b"}
\* The vectors callers pass: axis-aligned unit vectors of length 2, and one
\* of length 1 that no collection takes.
Vectors == {<<1, 0>>, <<0, 1>>, <<1>>}
Components == {-1, 0, 1}
DimChoices == {2, 3}

VARIABLES
    registry,   \* COLLECTIONS: path -> Collection, the paths that are open
    disk,       \* path -> the parsed content of <path>/metadata.json, where it exists
    ret,        \* the last facade call and what it returned
    hist,       \* history, per path: what the calls on the open collection amount to
    saved,      \* history, per path: hist as of the snapshot on disk
    ever,       \* history, per path: never reset by a restart of the process
    writer,     \* the call holding COLLECTIONS.write(), and how far it has got
    readers,    \* per reader thread: idle, waiting for or holding COLLECTIONS.read()
    lin         \* history: the registry and the disk after the calls that have returned

vars == <<registry, disk, ret, hist, saved, ever, writer, readers, lin>>

(***************************************************************************)
(* HashMap helpers.                                                        *)
(***************************************************************************)
EmptyMap == [x \in {} |-> x]

MapPut(m, k, v) == [x \in (DOMAIN m) \cup {k} |-> IF x = k THEN v ELSE m[x]]

MapDel(m, k) == [x \in (DOMAIN m) \ {k} |-> m[x]]

Range(m) == {m[x] : x \in DOMAIN m}

(***************************************************************************)
(* Cosine distance (DistCosine of hnsw_rs): 1 - a.b / (|a| |b|).  Every     *)
(* vector of Vectors has norm 1, so the quotient is the dot product.  On   *)
(* operands of different lengths, which only a damaged snapshot can put    *)
(* in the graph, the product runs over the common prefix.                  *)
(***************************************************************************)
RECURSIVE Dot(_, _)
Dot(a, b) ==
    IF a = <<>> \/ b = <<>> THEN 0 ELSE Head(a) * Head(b) + Dot(Tail(a), Tail(b))

Dist(a, b) == 1 - Dot(a, b)

(***************************************************************************)
(* The HNSW graph: the set of points [d_id, v] inserted so far.            *)
(***************************************************************************)
Hnsw_new == {}

Hnsw_insert(g, vec, internal_id) == g \cup {[d_id |-> internal_id, v |-> vec]}

\* d gives each node's distance to the query.
NodeBefore(d, n, o) ==
    \/ d[n] < d[o]
    \/ d[n] = d[o] /\ n.d_id <= o.d_id

\* The first knbn nodes of g in ascending order.
RECURSIVE SortNodes(_, _, _)
SortNodes(g, d, knbn) ==
    IF g = {} \/ knbn <= 0 THEN <<>>
    ELSE LET m == CHOOSE n \in g : \A o \in g : NodeBefore(d, n, o)
         IN  <<m>> \o SortNodes(g \ {m}, d, knbn - 1)

\* The knbn nearest points of the graph, ascending by distance.
Hnsw_search(g, q, knbn) ==
    SortNodes(g, [n \in g |-> Dist(q, n.v)], knbn)

(***************************************************************************)
(* Collection (collection.rs).                                             *)
(***************************************************************************)
Collection_new(p, dims) ==
    [hnsw |-> Hnsw_new, id_map |-> EmptyMap, reverse_map |-> EmptyMap,
     deleted_ids |-> {}, next_id |-> 0, dimensions |-> dims, path |-> p,
     dirty |-> FALSE, vectors |-> EmptyMap]

\* The points re-inserted by the rebuild: the stored vectors whose external
\* id is known and not tombstoned.
RebuildNodes(c) ==
    {[d_id |-> i, v |-> c.vectors[i]] :
        i \in {j \in DOMAIN c.vectors :
                 j \in DOMAIN c.reverse_map /\ c.reverse_map[j] \notin c.deleted_ids}}

rebuild_from_vectors(c) == [c EXCEPT !.hnsw = Hnsw_new \cup RebuildNodes(c)]

\* The upsert branch with line 72 (reverse_map.remove) left out.
UpsertOld_keeps_reverse(c, id) ==
    IF id \in DOMAIN c.id_map
    THEN [c EXCEPT !.deleted_ids = @ \cup {id},
                   !.vectors = MapDel(@, c.id_map[id])]
    ELSE c

\* Lines 69-73: the upsert branch.
UpsertOld(c, id) ==
    IF id \in DOMAIN c.id_map
    THEN [c EXCEPT !.deleted_ids = @ \cup {id},
                   !.vectors = MapDel(@, c.id_map[id]),
                   !.reverse_map = MapDel(@, c.id_map[id])]
    ELSE c

\* Lines 75-80: allocate the internal id and record the identity.
AllocateId(c, id, vector) ==
    [c EXCEPT !.next_id = @ + 1,
              !.id_map = MapPut(@, id, c.next_id),
              !.reverse_map = MapPut(@, c.next_id, id),
              !.vectors = MapPut(@, c.next_id, vector)]

\* Lines 82-86: clear the tombstone, insert into the graph, set dirty.
FinishInsert(c, id, vector) ==
    [c EXCEPT !.deleted_ids = @ \ {id},
              !.hnsw = Hnsw_insert(@, vector, c.id_map[id]),
              !.dirty = TRUE]

coll_insert_vector(c, id, vector) ==
    FinishInsert(AllocateId(UpsertOld(c, id), id, vector), id, vector)

\* The neighbours the filter loop of search_vectors keeps, as graph points.
\* The filter loop without the break of lines 96-98.
RECURSIVE FilterHits_no_limit(_, _, _, _)
FilterHits_no_limit(c, results, k, output) ==
    IF results = <<>> THEN output
    ELSE LET n == Head(results)
             keep == /\ n.d_id \in DOMAIN c.reverse_map
                     /\ c.reverse_map[n.d_id] \notin c.deleted_ids
         IN  FilterHits_no_limit(c, Tail(results), k,
                                 IF keep THEN Append(output, n) ELSE output)

RECURSIVE FilterHits(_, _, _, _)
FilterHits(c, results, k, output) ==
    IF results = <<>> \/ Len(output) >= k THEN output
    ELSE LET n == Head(results)
             keep == /\ n.d_id \in DOMAIN c.reverse_map
                     /\ c.reverse_map[n.d_id] \notin c.deleted_ids
         IN  FilterHits(c, Tail(results), k,
                        IF keep THEN Append(output, n) ELSE output)

SearchHits(c, query, k) ==
    FilterHits(c, Hnsw_search(c.hnsw, query, k + Cardinality(c.deleted_ids)), k, <<>>)

\* (uuid, score) with score = 1.0 - distance.
search_vectors(c, query, k) ==
    LET hits == SearchHits(c, query, k)
    IN  [i \in 1..Len(hits) |->
            <<c.reverse_map[hits[i].d_id], 1 - Dist(query, hits[i].v)>>]

\* delete_vector without the test that the id is known.
coll_delete_vector_any_id(c, id) ==
    IF id \notin c.deleted_ids
    THEN [coll |-> [c EXCEPT !.deleted_ids = @ \cup {id}, !.dirty = TRUE], val |-> TRUE]
    ELSE [coll |-> c, val |-> FALSE]

\* delete_vector with line 114 (the tombstone) left out.
coll_delete_vector_no_tombstone(c, id) ==
    IF id \in DOMAIN c.id_map /\ id \notin c.deleted_ids
    THEN [coll |-> [c EXCEPT !.dirty = TRUE], val |-> TRUE]
    ELSE [coll |-> c, val |-> FALSE]

\* delete_vector without the test for an existing tombstone.
coll_delete_vector_twice(c, id) ==
    IF id \in DOMAIN c.id_map
    THEN [coll |-> [c EXCEPT !.deleted_ids = @ \cup {id}, !.dirty = TRUE], val |-> TRUE]
    ELSE [coll |-> c, val |-> FALSE]

coll_delete_vector(c, id) ==
    IF id \in DOMAIN c.id_map /\ id \notin c.deleted_ids
    THEN [coll |-> [c EXCEPT !.deleted_ids = @ \cup {id}, !.dirty = TRUE], val |-> TRUE]
    ELSE [coll |-> c, val |-> FALSE]

active_count(c) == Cardinality(DOMAIN c.id_map) - Cardinality(c.deleted_ids)

(***************************************************************************)
(* Snapshot codec (persistence.rs).  A text is a sequence: the decimal     *)
(* digits of an internal id, the base64 digits (0..63, Pad for '=') of a   *)
(* vector's little-endian f32 bytes.                                       *)
(***************************************************************************)
RECURSIVE to_string(_)
to_string(n) == IF n < 10 THEN <<n>> ELSE to_string(n \div 10) \o <<n % 10>>

IsNumeric(s) == Len(s) > 0 /\ \A i \in 1..Len(s) : s[i] \in 0..9

RECURSIVE parse(_)
parse(s) ==
    IF Len(s) = 1 THEN s[1]
    ELSE parse(SubSeq(s, 1, Len(s) - 1)) * 10 + s[Len(s)]

\* f32::to_le_bytes of 0.0, 1.0 (0x3F800000) and -1.0 (0xBF800000).
to_le_bytes(f) ==
    CASE f = 0 -> <<0, 0, 0, 0>>
      [] f = 1 -> <<0, 0, 128, 63>>
      [] f = -1 -> <<0, 0, 128, 191>>

from_le_bytes(chunk) == CHOOSE f \in Components : to_le_bytes(f) = chunk

RECURSIVE VecBytes(_)
VecBytes(vec) == IF vec = <<>> THEN <<>> ELSE to_le_bytes(Head(vec)) \o VecBytes(Tail(vec))

Pad == 64

RECURSIVE BASE64_encode(_)
BASE64_encode(bytes) ==
    IF Len(bytes) = 0 THEN <<>>
    ELSE IF Len(bytes) = 1 THEN
        <<bytes[1] \div 4, (bytes[1] % 4) * 16, Pad, Pad>>
    ELSE IF Len(bytes) = 2 THEN
        <<bytes[1] \div 4, (bytes[1] % 4) * 16 + bytes[2] \div 16,
          (bytes[2] % 16) * 4, Pad>>
    ELSE
        <<bytes[1] \div 4, (bytes[1] % 4) * 16 + bytes[2] \div 16,
          (bytes[2] % 16) * 4 + bytes[3] \div 64, bytes[3] % 64>>
        \o BASE64_encode(SubSeq(bytes, 4, Len(bytes)))

IsBase64(b64) ==
    /\ Len(b64) % 4 = 0
    /\ \A i \in 1..Len(b64) :
          \/ b64[i] \in 0..63
          \/ b64[i] = Pad /\ i >= Len(b64) - 1 /\ (i = Len(b64) \/ b64[Len(b64)] = Pad)

RECURSIVE BASE64_decode(_)
BASE64_decode(b64) ==
    IF Len(b64) = 0 THEN <<>>
    ELSE LET b1 == b64[1] * 4 + b64[2] \div 16
             b2 == (b64[2] % 16) * 16 + b64[3] \div 4
             b3 == (b64[3] % 4) * 64 + b64[4]
         IN  IF b64[3] = Pad THEN <<b1>>
             ELSE IF b64[4] = Pad THEN <<b1, b2>>
             ELSE <<b1, b2, b3>> \o BASE64_decode(SubSeq(b64, 5, Len(b64)))

\* bytes.chunks_exact(4).map(f32::from_le_bytes): a remainder is dropped.
DecodeVector(bytes) ==
    [i \in 1..(Len(bytes) \div 4) |-> from_le_bytes(SubSeq(bytes, 4 * i - 3, 4 * i))]

EncodedVectors(c) ==
    [s \in {to_string(i) : i \in DOMAIN c.vectors} |->
        BASE64_encode(VecBytes(c.vectors[parse(s)]))]

\* The metadata with the allocator not written.
Metadata_without_next_id(c) ==
    [dimensions |-> c.dimensions, next_id |-> 0, id_map |-> c.id_map,
     deleted_ids |-> c.deleted_ids, vectors |-> EncodedVectors(c)]

Metadata(c) ==
    [dimensions |-> c.dimensions, next_id |-> c.next_id, id_map |-> c.id_map,
     deleted_ids |-> c.deleted_ids, vectors |-> EncodedVectors(c)]

\* What fs::write leaves when it fails part-way: text serde_json cannot parse.
TornFile == [parsable |-> FALSE, meta |-> Metadata(Collection_new("", 0))]

IoOutcomes == {"ok", "fail_dir", "fail_write"}

\* io: "ok", or create_dir_all fails (nothing is written), or fs::write fails.
save_collection(c, file_on_disk, io) ==
    CASE io = "ok" -> [ok |-> TRUE, files |-> MapPut(file_on_disk, c.path,
                            [parsable |-> TRUE, meta |-> Metadata(c)])]
      [] io = "fail_dir" -> [ok |-> FALSE, files |-> file_on_disk]
      [] io = "fail_write" -> [ok |-> FALSE, files |-> MapPut(file_on_disk, c.path, TornFile)]

\* Lines 85-88.  The snapshots save_collection writes have an injective
\* id_map, where the choice is of the one external id.
InvertIdMap(id_map) ==
    [i \in Range(id_map) |-> CHOOSE uuid \in DOMAIN id_map : id_map[uuid] = i]

LoadedVectors(meta) ==
    [i \in {parse(s) : s \in DOMAIN meta.vectors} |->
        DecodeVector(BASE64_decode(
            meta.vectors[CHOOSE s \in DOMAIN meta.vectors : parse(s) = i]))]

\* The load with the loop of lines 85-88 left out.
LoadedCollection_without_reverse_map(p, meta) ==
    rebuild_from_vectors(
        [Collection_new(p, meta.dimensions) EXCEPT
            !.next_id = meta.next_id,
            !.id_map = meta.id_map,
            !.deleted_ids = meta.deleted_ids,
            !.vectors = LoadedVectors(meta)])

\* The collection of lines 64-91, given the parsed metadata.
LoadedCollection(p, meta) ==
    rebuild_from_vectors(
        [Collection_new(p, meta.dimensions) EXCEPT
            !.next_id = meta.next_id,
            !.id_map = meta.id_map,
            !.deleted_ids = meta.deleted_ids,
            !.vectors = LoadedVectors(meta),
            !.reverse_map = InvertIdMap(meta.id_map)])

\* Ok(None) is tag "none", Ok(Some(c)) is "some", Err(_) is "err".
load_collection(file_on_disk, p) ==
    IF p \notin DOMAIN file_on_disk THEN [tag |-> "none", coll |-> Collection_new(p, 0)]
    ELSE IF ~file_on_disk[p].parsable
            \/ \E s \in DOMAIN file_on_disk[p].meta.vectors :
                  ~IsNumeric(s) \/ ~IsBase64(file_on_disk[p].meta.vectors[s])
         THEN [tag |-> "err", coll |-> Collection_new(p, 0)]
    ELSE [tag |-> "some", coll |-> LoadedCollection(p, file_on_disk[p].meta)]

\* 0 when metadata.json is absent, else its length; the length of the JSON
\* text is not modelled beyond being positive.
collection_file_size(file_on_disk, p) ==
    IF p \in DOMAIN file_on_disk THEN 1 ELSE 0

(***************************************************************************)
(* History variables.  abs: the vector each external id is live with      *)
(* (NoVec: not live); del: the ids a delete_vector returned true for, not  *)
(* inserted since; issued: the internal ids handed out.                    *)
(***************************************************************************)
NoVec == <<>>

HistEmpty == [abs |-> [x \in ExtIds |-> NoVec], del |-> {}, issued |-> {}]

HistInsert(h, id, vector, internal_id) ==
    [abs |-> [h.abs EXCEPT ![id] = vector], del |-> h.del \ {id},
     issued |-> h.issued \cup {internal_id}]

HistDelete(h, id, val) ==
    IF val THEN [h EXCEPT !.abs[id] = NoVec, !.del = @ \cup {id}] ELSE h

EverInsert(e, id, internal_id) ==
    [del |-> e.del \ {id}, issued |-> e.issued \cup {internal_id}]

EverDelete(e, id, val) == IF val THEN [e EXCEPT !.del = @ \cup {id}] ELSE e

(***************************************************************************)
(* The facade (lib.rs).  Each call records what it returned in ret.        *)
(***************************************************************************)
\* The configurations callers pass: the supported ones, and one with each
\* of the three faults create_collection rejects.
Configs ==
    [path : Paths, dimensions : DimChoices, index_type : {"hnsw"}, metric : {"cosine"}]
    \cup [path : Paths, dimensions : {2}, index_type : {"hnsw"}, metric : {"euclidean"}]
    \cup [path : Paths, dimensions : {2}, index_type : {"flat"}, metric : {"cosine"}]
    \cup [path : Paths, dimensions : {0}, index_type : {"hnsw"}, metric : {"cosine"}]

Ret(op, p, id, arg, err, val) ==
    [op |-> op, path |-> p, id |-> id, arg |-> arg, ok |-> (err = "ok"),
     err |-> err, val |-> val]

\* search of lib.rs once the collection is found and the query has its length.
search_found(c, query, k) ==
    IF active_count(c) = 0 THEN <<>> ELSE search_vectors(c, query, k)

stats_found(c, file_on_disk) ==
    [count |-> active_count(c), dimensions |-> c.dimensions,
     file_size_bytes |-> collection_file_size(file_on_disk, c.path)]

\* What a caller can see of a collection through stats and top-1 searches
\* on the vectors of `stored`.
Top1(c, v) == [i \in 1..Len(search_found(c, v, 1)) |-> search_found(c, v, 1)[i][1]]

Observed(c, stored) ==
    [count |-> active_count(c), dimensions |-> c.dimensions,
     top1 |-> [v \in stored |-> Top1(c, v)]]

SavedEmpty == [h |-> HistEmpty, obs |-> Observed(Collection_new("", 0), {}), next_id |-> 0]

\* The compaction with line 135 (id_map.remove) left out.
RECURSIVE RemoveDeleted_keeps_id_map(_, _)
RemoveDeleted_keeps_id_map(c, deleted) ==
    IF deleted = {} THEN c
    ELSE LET uuid == CHOOSE u \in deleted : TRUE
             c1 == IF uuid \in DOMAIN c.id_map
                   THEN [c EXCEPT !.vectors = MapDel(@, c.id_map[uuid]),
                                  !.reverse_map = MapDel(@, c.id_map[uuid])]
                   ELSE c
         IN  RemoveDeleted_keeps_id_map(c1, deleted \ {uuid})

\* Lines 126-140: the compacting rebuild.
RECURSIVE RemoveDeleted(_, _)
RemoveDeleted(c, deleted) ==
    IF deleted = {} THEN c
    ELSE LET uuid == CHOOSE u \in deleted : TRUE
             c1 == IF uuid \in DOMAIN c.id_map
                   THEN [c EXCEPT !.vectors = MapDel(@, c.id_map[uuid]),
                                  !.reverse_map = MapDel(@, c.id_map[uuid])]
                   ELSE c
         IN  RemoveDeleted([c1 EXCEPT !.id_map = MapDel(@, uuid)], deleted \ {uuid})

\* The compaction with line 137 (deleted_ids.clear) left out.
Compact_keeps_tombstones(c) ==
    IF c.deleted_ids # {}
    THEN rebuild_from_vectors(RemoveDeleted(c, c.deleted_ids))
    ELSE c

\* The compaction handing out the internal ids again from the number of
\* vectors kept.
Compact_resets_next_id(c) ==
    IF c.deleted_ids # {}
    THEN rebuild_from_vectors([RemoveDeleted(c, c.deleted_ids) EXCEPT
             !.deleted_ids = {},
             !.next_id = Cardinality(DOMAIN RemoveDeleted(c, c.deleted_ids).vectors)])
    ELSE c

Compact(c) ==
    IF c.deleted_ids # {}
    THEN rebuild_from_vectors([RemoveDeleted(c, c.deleted_ids) EXCEPT !.deleted_ids = {}])
    ELSE c

\* The validation with the metric test of lines 38-43 left out.
ConfigError_accepts_any_metric(config) ==
    IF config.index_type # "hnsw" THEN "unsupported_index_type"
    ELSE IF config.dimensions = 0 THEN "zero_dimensions"
    ELSE "ok"

\* Lines 38-52: the configuration is validated before the lock is taken.
ConfigError(config) ==
    IF config.metric # "cosine" THEN "unsupported_metric"
    ELSE IF config.index_type # "hnsw" THEN "unsupported_index_type"
    ELSE IF config.dimensions = 0 THEN "zero_dimensions"
    ELSE "ok"

\* create_collection without the test of lines 61-64: an open path is loaded again.
OpenIn_reloads(reg, file_on_disk, config) ==
    LET l == load_collection(file_on_disk, config.path)
    IN  CASE l.tag = "some" ->
               IF l.coll.dimensions # config.dimensions
               THEN [reg |-> reg, err |-> "dimension_mismatch"]
               ELSE [reg |-> MapPut(reg, config.path, l.coll), err |-> "ok"]
          [] l.tag = "none" ->
               [reg |-> MapPut(reg, config.path,
                               Collection_new(config.path, config.dimensions)),
                err |-> "ok"]
          [] l.tag = "err" -> [reg |-> reg, err |-> "load_failed"]

\* create_collection without the comparison of lines 69-74.
OpenIn_any_dimensions(reg, file_on_disk, config) ==
    IF config.path \in DOMAIN reg THEN [reg |-> reg, err |-> "ok"]
    ELSE LET l == load_collection(file_on_disk, config.path)
         IN  CASE l.tag = "some" -> [reg |-> MapPut(reg, config.path, l.coll), err |-> "ok"]
               [] l.tag = "none" ->
                    [reg |-> MapPut(reg, config.path,
                                    Collection_new(config.path, config.dimensions)),
                     err |-> "ok"]
               [] l.tag = "err" -> [reg |-> reg, err |-> "load_failed"]

\* Lines 61-89, the registry lock held: the registry after the call and the error.
OpenIn(reg, file_on_disk, config) ==
    IF config.path \in DOMAIN reg THEN [reg |-> reg, err |-> "ok"]
    ELSE LET l == load_collection(file_on_disk, config.path)
         IN  CASE l.tag = "some" ->
                    IF l.coll.dimensions # config.dimensions
                    THEN [reg |-> reg, err |-> "dimension_mismatch"]
                    ELSE [reg |-> MapPut(reg, config.path, l.coll), err |-> "ok"]
               [] l.tag = "none" ->
                    [reg |-> MapPut(reg, config.path,
                                    Collection_new(config.path, config.dimensions)),
                     err |-> "ok"]
               [] l.tag = "err" -> [reg |-> reg, err |-> "load_failed"]

\* What the mutating calls do to the registry and the disk, the lock held.
\* insert_vector with the length test of lines 102-108 left out.
InsertError_any_length(reg, p, vector) ==
    IF p \notin DOMAIN reg THEN "not_found" ELSE "ok"

\* Lines 98-108: the collection is looked up, then the length is tested.
InsertError(reg, p, vector) ==
    IF p \notin DOMAIN reg THEN "not_found"
    ELSE IF Len(vector) # reg[p].dimensions THEN "dimension_mismatch"
    ELSE "ok"

ApplyInsert(reg, p, id, vector) ==
    IF InsertError(reg, p, vector) # "ok" THEN reg
    ELSE [reg EXCEPT ![p] = coll_insert_vector(@, id, vector)]

ApplyDelete(reg, p, id) ==
    IF p \notin DOMAIN reg THEN reg
    ELSE [reg EXCEPT ![p] = coll_delete_vector(@, id).coll]

\* build_index clearing dirty whether or not the save succeeded.
ApplyBuild_always_clean(reg, file_on_disk, p, io) ==
    IF p \notin DOMAIN reg THEN [reg |-> reg, files |-> file_on_disk, ok |-> FALSE]
    ELSE LET coll == Compact(reg[p])
             s == save_collection(coll, file_on_disk, io)
         IN  [reg |-> [reg EXCEPT ![p] = [coll EXCEPT !.dirty = FALSE]],
              files |-> s.files, ok |-> s.ok]

\* Lines 122-146: compaction, save, and dirty cleared once the save returned Ok.
ApplyBuild(reg, file_on_disk, p, io) ==
    IF p \notin DOMAIN reg THEN [reg |-> reg, files |-> file_on_disk, ok |-> FALSE]
    ELSE LET coll == Compact(reg[p])
             s == save_collection(coll, file_on_disk, io)
         IN  [reg |-> [reg EXCEPT ![p] = IF s.ok THEN [coll EXCEPT !.dirty = FALSE] ELSE coll],
              files |-> s.files, ok |-> s.ok]

create_collection(config) ==
    LET e == ConfigError(config)
        o == OpenIn(registry, disk, config)
    IN  /\ registry' = IF e = "ok" THEN o.reg ELSE registry
        /\ ret' = Ret("create_collection", config.path, "", config,
                      IF e = "ok" THEN o.err ELSE e,
                      e = "ok" /\ o.err = "ok" /\ config.path \notin DOMAIN registry
                        /\ config.path \in DOMAIN disk)
        /\ UNCHANGED <<writer, readers, lin, disk, hist, saved, ever>>

insert_vector(p, id, vector) ==
    IF InsertError(registry, p, vector) # "ok"
    THEN /\ ret' = Ret("insert_vector", p, id, vector, InsertError(registry, p, vector), -1)
         /\ UNCHANGED <<writer, readers, lin, registry, disk, hist, saved, ever>>
    ELSE /\ registry[p].next_id < MaxNextId
         /\ registry' = ApplyInsert(registry, p, id, vector)
         /\ ret' = Ret("insert_vector", p, id, vector, "ok",
                       IF id \in DOMAIN registry[p].id_map
                       THEN registry[p].id_map[id] ELSE -1)
         /\ hist' = [hist EXCEPT ![p] = HistInsert(@, id, vector, registry[p].next_id)]
         /\ ever' = [ever EXCEPT ![p] = EverInsert(@, id, registry[p].next_id)]
         /\ UNCHANGED <<writer, readers, lin, disk, saved>>

build_index(p, io) ==
    IF p \notin DOMAIN registry
    THEN /\ ret' = Ret("build_index", p, "", io, "not_found", FALSE)
         /\ UNCHANGED <<writer, readers, lin, registry, disk, hist, saved, ever>>
    ELSE LET b == ApplyBuild(registry, disk, p, io)
         IN  /\ disk' = b.files
             /\ registry' = b.reg
             /\ ret' = Ret("build_index", p, "", io,
                           IF b.ok THEN "ok" ELSE "save_failed", registry[p].deleted_ids # {})
             /\ saved' = IF b.ok
                         THEN [saved EXCEPT ![p] =
                                 [h |-> hist[p],
                                  obs |-> Observed(registry[p], Range(registry[p].vectors)),
                                  next_id |-> registry[p].next_id]]
                         ELSE saved
             /\ UNCHANGED <<writer, readers, lin, hist, ever>>

\* search with the lookup failure of lines 157-159 turned into an empty result.
search_call_unknown_is_empty(reg, p, query, k) ==
    IF p \notin DOMAIN reg THEN [err |-> "ok", val |-> <<>>]
    ELSE IF Len(query) # reg[p].dimensions THEN [err |-> "dimension_mismatch", val |-> <<>>]
    ELSE [err |-> "ok", val |-> search_found(reg[p], query, k)]

\* search takes the read lock and changes nothing: what it returns is a
\* function of the state, and the action leaves every variable as it is.
search_call(reg, p, query, k) ==
    IF p \notin DOMAIN reg THEN [err |-> "not_found", val |-> <<>>]
    ELSE IF Len(query) # reg[p].dimensions THEN [err |-> "dimension_mismatch", val |-> <<>>]
    ELSE [err |-> "ok", val |-> search_found(reg[p], query, k)]

\* Lines 157-167: the error search returns before it looks at the graph.
SearchError(reg, p, query) ==
    IF p \notin DOMAIN reg THEN "not_found"
    ELSE IF Len(query) # reg[p].dimensions THEN "dimension_mismatch"
    ELSE "ok"

\* The call returns search_call(registry, p, query, k).
search(p, query, k) ==
    /\ SearchError(registry, p, query) \in {"ok", "not_found", "dimension_mismatch"}
    /\ UNCHANGED vars

delete_vector(p, id) ==
    IF p \notin DOMAIN registry
    THEN /\ ret' = Ret("delete_vector", p, id, "", "not_found", FALSE)
         /\ UNCHANGED <<writer, readers, lin, registry, disk, hist, saved, ever>>
    ELSE LET d == coll_delete_vector(registry[p], id)
         IN  /\ registry' = ApplyDelete(registry, p, id)
             /\ ret' = Ret("delete_vector", p, id, "", "ok", d.val)
             /\ hist' = [hist EXCEPT ![p] = HistDelete(@, id, d.val)]
             /\ ever' = [ever EXCEPT ![p] = EverDelete(@, id, d.val)]
             /\ UNCHANGED <<writer, readers, lin, disk, saved>>

\* stats takes the read lock and changes nothing.
stats_call(reg, file_on_disk, p) ==
    IF p \notin DOMAIN reg
    THEN [err |-> "not_found", val |-> stats_found(Collection_new(p, 0), EmptyMap)]
    ELSE [err |-> "ok", val |-> stats_found(reg[p], file_on_disk)]

stats(p) ==
    /\ stats_call(registry, disk, p).err \in {"ok", "not_found"}
    /\ UNCHANGED vars

\* The process ends and a new one starts: COLLECTIONS is empty again, the
\* files stay.  The history of a path falls back to that of its snapshot.
Restart ==
    /\ registry # EmptyMap
    /\ registry' = EmptyMap
    /\ ret' = Ret("restart", "", "", "", "ok", FALSE)
    /\ hist' = [p \in Paths |-> saved[p].h]
    /\ UNCHANGED <<writer, readers, lin, disk, saved, ever>>

NoWriter == [op |-> "none", phase |-> "done", path |-> "", id |-> "", arg |-> "", ok |-> FALSE]

Idle == [pc |-> "idle", begin |-> 0]

Init ==
    /\ registry = EmptyMap
    /\ disk = EmptyMap
    /\ ret = Ret("init", "", "", "", "ok", FALSE)
    /\ hist = [p \in Paths |-> HistEmpty]
    /\ saved = [p \in Paths |-> SavedEmpty]
    /\ ever = [p \in Paths |-> [del |-> {}, issued |-> {}]]
    /\ writer = NoWriter
    /\ readers = [t \in ReaderThreads |-> Idle]
    /\ lin = [reg |-> EmptyMap, files |-> EmptyMap, ver |-> 0]

Next ==
    \/ \E config \in Configs : create_collection(config)
    \/ \E p \in Paths, id \in ExtIds, vector \in Vectors : insert_vector(p, id, vector)
    \/ \E p \in Paths, io \in IoOutcomes : build_index(p, io)
    \/ \E p \in Paths, query \in Vectors, k \in 0..MaxK : search(p, query, k)
    \/ \E p \in Paths, id \in ExtIds : delete_vector(p, id)
    \/ \E p \in Paths : stats(p)
    \/ Restart

Spec == Init /\ [][Next]_vars

(***************************************************************************)
(* The calls under the registry's RwLock, step by step.  Under Spec every  *)
(* call runs alone from taking the lock to releasing it, and writer,       *)
(* readers and lin keep their initial values.  Under SpecConc a mutating   *)
(* call takes COLLECTIONS.write(), changes the collection one group of     *)
(* assignments at a time and releases the lock when it returns; search and *)
(* stats are called, wait for COLLECTIONS.read(), read the registry while  *)
(* they hold it and release it.  lin is the registry and the disk that the *)
(* calls which have returned amount to, each applied whole, and the number *)
(* of these calls.                                                         *)
(***************************************************************************)
\* A read that does not wait for the writer.
CanRead_ignores_writer(w) == w.op \in {"none", "insert_vector", "build_index"}

\* RwLock::read succeeds when no writer holds the lock.
CanRead(w) == w.op = "none"

\* RwLock::write succeeds when nobody holds the lock.
CanWrite(w, r) == w.op = "none" /\ \A t \in ReaderThreads : r[t].pc # "holding"

ValidConfigs == {config \in Configs : ConfigError(config) = "ok"}

ConcQuiet == UNCHANGED <<ret, hist, saved, ever>>

\* A mutating call takes the write lock (a create_collection with an
\* unsupported configuration returns before it asks for the lock).
WriteBegin(op, p, id, arg) ==
    /\ CanWrite(writer, readers)
    /\ lin.ver < MaxOps
    /\ writer' = [op |-> op, phase |-> "start", path |-> p, id |-> id, arg |-> arg, ok |-> FALSE]
    /\ UNCHANGED <<registry, disk, readers, lin>>
    /\ ConcQuiet

BeginCreate(config) == WriteBegin("create_collection", config.path, "", config)

BeginInsert(p, id, vector) ==
    /\ p \in DOMAIN registry => registry[p].next_id < MaxNextId
    /\ WriteBegin("insert_vector", p, id, vector)

BeginBuild(p, io) == WriteBegin("build_index", p, "", io)

BeginDelete(p, id) == WriteBegin("delete_vector", p, id, "")

\* lib.rs 61-89.
CreateStep ==
    /\ writer.op = "create_collection" /\ writer.phase = "start"
    /\ registry' = OpenIn(registry, disk, writer.arg).reg
    /\ writer' = [writer EXCEPT !.phase = "done"]
    /\ UNCHANGED <<disk, readers, lin>>
    /\ ConcQuiet

\* lib.rs 98-108 and collection.rs 69-73.
InsertUpsertStep ==
    /\ writer.op = "insert_vector" /\ writer.phase = "start"
    /\ IF writer.path \notin DOMAIN registry
          \/ Len(writer.arg) # registry[writer.path].dimensions
       THEN /\ writer' = [writer EXCEPT !.phase = "done"]
            /\ UNCHANGED registry
       ELSE /\ registry' = [registry EXCEPT ![writer.path] = UpsertOld(@, writer.id)]
            /\ writer' = [writer EXCEPT !.phase = "allocate"]
    /\ UNCHANGED <<disk, readers, lin>>
    /\ ConcQuiet

\* collection.rs 75-80.
InsertAllocateStep ==
    /\ writer.op = "insert_vector" /\ writer.phase = "allocate"
    /\ registry' = [registry EXCEPT ![writer.path] = AllocateId(@, writer.id, writer.arg)]
    /\ writer' = [writer EXCEPT !.phase = "finish"]
    /\ UNCHANGED <<disk, readers, lin>>
    /\ ConcQuiet

\* collection.rs 82-86.
InsertFinishStep ==
    /\ writer.op = "insert_vector" /\ writer.phase = "finish"
    /\ registry' = [registry EXCEPT ![writer.path] = FinishInsert(@, writer.id, writer.arg)]
    /\ writer' = [writer EXCEPT !.phase = "done"]
    /\ UNCHANGED <<disk, readers, lin>>
    /\ ConcQuiet

\* lib.rs 190-194.
DeleteStep ==
    /\ writer.op = "delete_vector" /\ writer.phase = "start"
    /\ registry' = ApplyDelete(registry, writer.path, writer.id)
    /\ writer' = [writer EXCEPT !.phase = "done"]
    /\ UNCHANGED <<disk, readers, lin>>
    /\ ConcQuiet

\* lib.rs 122-140.
BuildCompactStep ==
    /\ writer.op = "build_index" /\ writer.phase = "start"
    /\ IF writer.path \notin DOMAIN registry
       THEN /\ writer' = [writer EXCEPT !.phase = "done"]
            /\ UNCHANGED registry
       ELSE /\ registry' = [registry EXCEPT ![writer.path] = Compact(@)]
            /\ writer' = [writer EXCEPT !.phase = "save"]
    /\ UNCHANGED <<disk, readers, lin>>
    /\ ConcQuiet

\* lib.rs 142-144.
BuildSaveStep ==
    /\ writer.op = "build_index" /\ writer.phase = "save"
    /\ LET s == save_collection(registry[writer.path], disk, writer.arg)
       IN  /\ disk' = s.files
           /\ writer' = [writer EXCEPT !.phase = IF s.ok THEN "clean" ELSE "done",
                                       !.ok = s.ok]
    /\ UNCHANGED <<registry, readers, lin>>
    /\ ConcQuiet

\* lib.rs 146.
BuildCleanStep ==
    /\ writer.op = "build_index" /\ writer.phase = "clean"
    /\ registry' = [registry EXCEPT ![writer.path].dirty = FALSE]
    /\ writer' = [writer EXCEPT !.phase = "done"]
    /\ UNCHANGED <<disk, readers, lin>>
    /\ ConcQuiet

\* The registry and the disk after the call of w, applied whole.
LinApply(l, w) ==
    CASE w.op = "create_collection" ->
            [reg |-> OpenIn(l.reg, l.files, w.arg).reg, files |-> l.files, ver |-> l.ver + 1]
      [] w.op = "insert_vector" ->
            [reg |-> ApplyInsert(l.reg, w.path, w.id, w.arg), files |-> l.files,
             ver |-> l.ver + 1]
      [] w.op = "delete_vector" ->
            [reg |-> ApplyDelete(l.reg, w.path, w.id), files |-> l.files, ver |-> l.ver + 1]
      [] w.op = "build_index" ->
            [reg |-> ApplyBuild(l.reg, l.files, w.path, w.arg).reg,
             files |-> ApplyBuild(l.reg, l.files, w.path, w.arg).files, ver |-> l.ver + 1]

\* The call returns: the guard is dropped.
WriteEnd ==
    /\ writer.op # "none" /\ writer.phase = "done"
    /\ lin' = LinApply(lin, writer)
    /\ writer' = NoWriter
    /\ UNCHANGED <<registry, disk, readers>>
    /\ ConcQuiet

\* search or stats is called.
ReadBegin(t) ==
    /\ readers[t].pc = "idle"
    /\ readers' = [readers EXCEPT ![t] = [pc |-> "waiting", begin |-> lin.ver]]
    /\ UNCHANGED <<registry, disk, writer, lin>>
    /\ ConcQuiet

\* It gets the read lock, and reads the registry for as long as it holds it.
ReadAcquire(t) ==
    /\ readers[t].pc = "waiting"
    /\ CanRead(writer)
    /\ readers' = [readers EXCEPT ![t].pc = "holding"]
    /\ UNCHANGED <<registry, disk, writer, lin>>
    /\ ConcQuiet

\* It returns.
ReadEnd(t) ==
    /\ readers[t].pc = "holding"
    /\ readers' = [readers EXCEPT ![t] = Idle]
    /\ UNCHANGED <<registry, disk, writer, lin>>
    /\ ConcQuiet

NextConc ==
    \/ \E config \in ValidConfigs : BeginCreate(config)
    \/ \E p \in Paths, id \in ExtIds, vector \in Vectors : BeginInsert(p, id, vector)
    \/ \E p \in Paths, io \in IoOutcomes : BeginBuild(p, io)
    \/ \E p \in Paths, id \in ExtIds : BeginDelete(p, id)
    \/ CreateStep
    \/ InsertUpsertStep
    \/ InsertAllocateStep
    \/ InsertFinishStep
    \/ DeleteStep
    \/ BuildCompactStep
    \/ BuildSaveStep
    \/ BuildCleanStep
    \/ WriteEnd
    \/ \E t \in ReaderThreads : ReadBegin(t)
    \/ \E t \in ReaderThreads : ReadAcquire(t)
    \/ \E t \in ReaderThreads : ReadEnd(t)

SpecConc == Init /\ [][NextConc]_vars

(***************************************************************************)
(* Properties.                                                             *)
(***************************************************************************)
ResultIds(r) == {r[i][1] : i \in 1..Len(r)}

Queries(c) == {q \in Vectors : Len(q) = c.dimensions}

Live(h) == {x \in ExtIds : h.abs[x] # NoVec}

\* C1, as stated: once delete_vector(x) has returned true, no search returns
\* x before x is inserted again, in any later state, those after the process
\* restarted and the path was opened from its snapshot included.
C1_DeletedNeverReturned_AcrossReopen ==
    \A p \in DOMAIN registry : \A x \in ever[p].del :
        \A q \in Vectors, k \in 0..MaxK :
            x \notin ResultIds(search_call(registry, p, q, k).val)

\* C1, amended: once delete_vector(x) has returned true, no search returns x
\* before x is inserted again, while the collection stays in the registry;
\* and after a reopen, when the snapshot loaded was written by a build_index
\* that succeeded after the delete.
C1_DeletedNeverReturned ==
    \A p \in DOMAIN registry : \A x \in hist[p].del :
        \A q \in Vectors, k \in 0..MaxK :
            x \notin ResultIds(search_call(registry, p, q, k).val)

\* A deleted id is still tombstoned in the graph while a search returns another id.
C1_Witness ==
    \E p \in DOMAIN registry :
        /\ hist[p].del # {}
        /\ hist[p].del \subseteq registry[p].deleted_ids
        /\ \E q \in Vectors : ResultIds(search_call(registry, p, q, MaxK).val) # {}

\* C2: right after a successful insert_vector(x, v), search(v, k) with
\* k >= 1 returns x.
C2_InsertedIsFound ==
    (ret.op = "insert_vector" /\ ret.ok) =>
        \A k \in 1..MaxK :
            ret.id \in ResultIds(search_call(registry, ret.path, ret.arg, k).val)

\* C3: after build_index, the count stats reports is the number of external
\* ids whose most recent operation is an insert.
C3_ActiveCountAfterCheckpoint ==
    ret.op = "build_index" =>
        \A p \in DOMAIN registry :
            stats_call(registry, disk, p).val.count = Cardinality(Live(hist[p]))

\* A checkpoint compacted tombstones away and left a live id.
C3_Witness ==
    /\ ret.op = "build_index" /\ ret.ok /\ ret.val
    /\ \E p \in DOMAIN registry :
          /\ hist[p].del # {}
          /\ stats_call(registry, disk, p).val.count = 1

\* C4: after insert_vector(x, v2) on an x that was present, id_map[x] is the
\* fresh internal id and stores v2, and the previous internal id is in
\* neither the vector store nor reverse_map; and in every state no search
\* lists an external id twice, or with a score other than that of the vector
\* it was last inserted with.
C4_UpsertLeavesOneCopy ==
    /\ (ret.op = "insert_vector" /\ ret.ok /\ ret.val # -1) =>
          LET c == registry[ret.path]
          IN  /\ ret.id \in DOMAIN c.id_map
              /\ c.id_map[ret.id] = c.next_id - 1
              /\ c.id_map[ret.id] # ret.val
              /\ \A y \in DOMAIN c.id_map : y # ret.id => c.id_map[y] # c.id_map[ret.id]
              /\ c.id_map[ret.id] \in DOMAIN c.vectors
              /\ c.vectors[c.id_map[ret.id]] = ret.arg
              /\ ret.val \notin DOMAIN c.vectors
              /\ ret.val \notin DOMAIN c.reverse_map
              /\ ret.id \notin c.deleted_ids
    /\ \A p \in DOMAIN registry : \A q \in Queries(registry[p]), k \in 0..MaxK :
          LET r == search_call(registry, p, q, k).val
          IN  /\ \A i, j \in 1..Len(r) : r[i][1] = r[j][1] => i = j
              /\ \A i \in 1..Len(r) :
                    /\ hist[p].abs[r[i][1]] # NoVec
                    /\ r[i][2] = 1 - Dist(q, hist[p].abs[r[i][1]])

\* An id was replaced by another vector, and a search for the replaced
\* vector lists it, with the score of the new one.
C4_Witness ==
    /\ ret.op = "insert_vector" /\ ret.ok /\ ret.val # -1
    /\ \E n \in registry[ret.path].hnsw :
          /\ n.d_id = ret.val
          /\ n.v # ret.arg
          /\ <<ret.id, 1 - Dist(n.v, ret.arg)>> \in
                Range(search_call(registry, ret.path, n.v, MaxK).val)

\* C5: a collection opened from the snapshot of a successful build_index
\* shows the count, the dimensions and the top-1 external id for every
\* stored vector that the original showed before that build_index.
C5_RoundTrip ==
    (ret.op = "create_collection" /\ ret.ok /\ ret.val) =>
        Observed(registry[ret.path], DOMAIN saved[ret.path].obs.top1) = saved[ret.path].obs

\* C6, as stated: next_id is greater than every internal id ever issued on
\* the path, restarts of the process included.
C6_NextIdAboveEveryIssued_AcrossReopen ==
    \A p \in DOMAIN registry : \A i \in ever[p].issued : registry[p].next_id > i

\* C6, amended: next_id is greater than every internal id issued since the
\* collection was opened and every one issued before the snapshot it was
\* loaded from was written; and next_id after a reload is next_id before the
\* build_index that wrote the snapshot.
C6_NextIdAboveIssued ==
    /\ \A p \in DOMAIN registry : \A i \in hist[p].issued : registry[p].next_id > i
    /\ (ret.op = "create_collection" /\ ret.ok /\ ret.val) =>
          registry[ret.path].next_id = saved[ret.path].next_id

\* A collection was loaded from a snapshot written after ids were issued.
C6_Witness ==
    /\ ret.op = "create_collection" /\ ret.ok /\ ret.val
    /\ registry[ret.path].next_id > 0
    /\ hist[ret.path].issued # {}

\* C8: delete_vector(x) returns true exactly when x is in id_map and not
\* tombstoned; then it adds x to the tombstones and sets dirty and changes
\* nothing else; when it returns false it changes nothing.
C8_DeleteFrame ==
    [][(ret'.op = "delete_vector" /\ ret'.ok) =>
          LET c == registry[ret'.path]
              x == ret'.id
          IN  /\ ret'.val = (x \in DOMAIN c.id_map /\ x \notin c.deleted_ids)
              /\ registry' = [registry EXCEPT ![ret'.path] =
                                IF ret'.val
                                THEN [c EXCEPT !.deleted_ids = @ \cup {x}, !.dirty = TRUE]
                                ELSE c]
              /\ ret'.val => x \notin c.deleted_ids /\ x \in registry'[ret'.path].deleted_ids
              /\ disk' = disk]_vars

\* delete_vector returned true on a collection that has a snapshot on disk
\* and holds another id: the id is tombstoned and the collection is dirty.
C8_Witness ==
    /\ ret.op = "delete_vector" /\ ret.ok /\ ret.val
    /\ ret.id \in registry[ret.path].deleted_ids
    /\ registry[ret.path].dirty
    /\ Cardinality(DOMAIN registry[ret.path].id_map) = 2
    /\ ret.path \in DOMAIN disk

\* C9, as stated: create_collection for a path already in the registry
\* returns success and changes nothing.
C9_OpenIsIdempotent_AnyConfig ==
    [][(ret'.op = "create_collection" /\ ret'.path \in DOMAIN registry) =>
          (ret'.ok /\ registry' = registry /\ disk' = disk)]_vars

\* C9, amended: create_collection for a path already in the registry changes
\* nothing; it returns success when the configuration is a supported one
\* (whatever dimensions it asks for), and the unsupported-configuration
\* error otherwise.
C9_OpenIsIdempotent ==
    [][(ret'.op = "create_collection" /\ ret'.path \in DOMAIN registry) =>
          /\ registry' = registry
          /\ disk' = disk
          /\ ret'.ok = (ConfigError(ret'.arg) = "ok")]_vars

\* create_collection returned success on an open collection with unsaved
\* inserts and tombstones, other than what the snapshot on disk holds.
C9_Witness ==
    /\ ret.op = "create_collection" /\ ret.ok
    /\ ret.path \in DOMAIN registry /\ ret.path \in DOMAIN disk
    /\ registry[ret.path].dirty
    /\ registry[ret.path].deleted_ids # {}
    /\ disk[ret.path].parsable
    /\ disk[ret.path].meta.id_map # registry[ret.path].id_map

\* C10, as stated (for the supported configurations): in every registry
\* state, create_collection for a path whose snapshot has other dimensions
\* than requested fails with the dimension-mismatch error; and the
\* dimensions of an open collection never change.
C10_MismatchFails_AnyRegistry ==
    [][/\ (/\ ret'.op = "create_collection"
           /\ ConfigError(ret'.arg) = "ok"
           /\ ret'.path \in DOMAIN disk
           /\ disk[ret'.path].parsable
           /\ disk[ret'.path].meta.dimensions # ret'.arg.dimensions)
          => ret'.err = "dimension_mismatch"
       /\ \A p \in (DOMAIN registry) \cap (DOMAIN registry') :
             registry'[p].dimensions = registry[p].dimensions]_vars

\* C10, amended: create_collection with a supported configuration, for a
\* path that is not in the registry and whose snapshot has other dimensions
\* than requested, fails with the dimension-mismatch error and opens
\* nothing; for a path that is in the registry it returns success without
\* comparing dimensions; and the dimensions of an open collection never change.
C10_MismatchFails ==
    [][/\ (/\ ret'.op = "create_collection"
           /\ ConfigError(ret'.arg) = "ok"
           /\ ret'.path \in DOMAIN disk
           /\ disk[ret'.path].parsable
           /\ disk[ret'.path].meta.dimensions # ret'.arg.dimensions)
          => IF ret'.path \in DOMAIN registry
             THEN ret'.ok /\ registry' = registry
             ELSE ret'.err = "dimension_mismatch" /\ registry' = registry
       /\ \A p \in (DOMAIN registry) \cap (DOMAIN registry') :
             registry'[p].dimensions = registry[p].dimensions]_vars

\* An open failed on the dimensions of a snapshot that holds vectors.
C10_Witness ==
    /\ ret.op = "create_collection" /\ ret.err = "dimension_mismatch"
    /\ ret.path \notin DOMAIN registry
    /\ disk[ret.path].meta.dimensions # ret.arg.dimensions
    /\ disk[ret.path].meta.id_map # EmptyMap

\* C7: while search or stats holds the read lock, the registry and the disk
\* it reads are those that the mutating calls which have returned amount to,
\* each applied whole and in the order they returned, so what it returns is
\* what it would return on that state; these calls include every one that
\* had returned when the search or stats was called; and whenever no call
\* holds the write lock the registry is in such a state.
C7_Linearisable ==
    /\ \A t \in ReaderThreads : readers[t].pc = "holding" =>
          /\ writer.op = "none"
          /\ registry = lin.reg
          /\ disk = lin.files
          /\ readers[t].begin <= lin.ver
          /\ \A p \in Paths :
                /\ stats_call(registry, disk, p) = stats_call(lin.reg, lin.files, p)
                /\ \A q \in Vectors, k \in 0..MaxK :
                      search_call(registry, p, q, k) = search_call(lin.reg, p, q, k)
    /\ writer.op = "none" => registry = lin.reg /\ disk = lin.files

\* A reader called before an upsert returned holds the lock after it, and
\* the graph holds the replaced point.
C7_Witness ==
    \E t \in ReaderThreads, p \in DOMAIN registry :
        /\ readers[t].pc = "holding"
        /\ readers[t].begin < lin.ver
        /\ \E n \in registry[p].hnsw : n.d_id \notin DOMAIN registry[p].reverse_map

\* A reader waits while an upsert has the id tombstoned.
C7_WitnessBlocked ==
    \E t \in ReaderThreads :
        /\ readers[t].pc = "waiting"
        /\ writer.op = "insert_vector" /\ writer.phase = "allocate"
        /\ writer.id \in registry[writer.path].deleted_ids

(***************************************************************************)
(* Error handling.                                                         *)
(***************************************************************************)
UnsupportedErrors == {"unsupported_metric", "unsupported_index_type", "zero_dimensions"}

\* C11: create_collection with a metric other than cosine, an index type
\* other than hnsw, or dimensions 0 fails with an unsupported-configuration
\* error, and the registry (and the disk) is the same before and after.
C11_UnsupportedConfigRegistersNothing ==
    [][(ret'.op = "create_collection"
          /\ (\/ ret'.arg.metric # "cosine"
              \/ ret'.arg.index_type # "hnsw"
              \/ ret'.arg.dimensions = 0))
       => /\ ~ret'.ok
          /\ ret'.err \in UnsupportedErrors
          /\ registry' = registry
          /\ disk' = disk]_vars

\* An unsupported metric was refused for a path that has a snapshot on disk
\* and is not open: nothing was loaded.
C11_Witness ==
    /\ ret.op = "create_collection"
    /\ ret.arg.metric = "euclidean"
    /\ ret.err = "unsupported_metric"
    /\ ret.path \in DOMAIN disk
    /\ ret.path \notin DOMAIN registry

(***************************************************************************)
(* Snapshots damaged outside the program.  Under SpecCorrupt the file of a *)
(* path can be damaged between two calls in the three ways the load can    *)
(* meet: text that is not JSON, a vectors key that is not a number, a      *)
(* payload that lost its last byte.  A file is damaged once.               *)
(***************************************************************************)
\* A corrupt snapshot as the specification defines it.
IsCorrupt(f) ==
    \/ ~f.parsable
    \/ \E s \in DOMAIN f.meta.vectors :
          \/ ~IsNumeric(s)
          \/ /\ IsBase64(f.meta.vectors[s])
             /\ Len(BASE64_decode(f.meta.vectors[s])) # 4 * f.meta.dimensions

DamageKinds == {"unparsable", "bad_key", "short_payload"}

\* A vectors key serde_json accepts and usize::parse refuses.
BadKey == <<-1>>

TruncatePayload(b64) ==
    LET bytes == BASE64_decode(b64)
    IN  BASE64_encode(SubSeq(bytes, 1, Len(bytes) - 1))

DamagedFile(f, kind) ==
    CASE kind = "unparsable" -> [f EXCEPT !.parsable = FALSE]
      [] kind = "bad_key" -> [f EXCEPT !.meta.vectors = MapPut(@, BadKey, <<>>)]
      [] kind = "short_payload" ->
            LET s == CHOOSE t \in DOMAIN f.meta.vectors : IsNumeric(t)
            IN  [f EXCEPT !.meta.vectors[s] = TruncatePayload(@)]

DamageSnapshot(p, kind) ==
    /\ p \in DOMAIN disk
    /\ ~IsCorrupt(disk[p])
    /\ kind = "short_payload" => \E t \in DOMAIN disk[p].meta.vectors : IsNumeric(t)
    /\ disk' = [disk EXCEPT ![p] = DamagedFile(@, kind)]
    /\ ret' = Ret("damage", p, "", kind, "ok", FALSE)
    /\ UNCHANGED <<writer, readers, lin, registry, hist, saved, ever>>

NextCorrupt ==
    \/ Next
    \/ \E p \in Paths, kind \in DamageKinds : DamageSnapshot(p, kind)

SpecCorrupt == Init /\ [][NextCorrupt]_vars

\* C12, as stated: create_collection that loads a corrupt snapshot
\* (unparsable, a non-numeric vectors key, or a payload whose decoded length
\* is not 4 * dimensions) fails and adds no entry for the path.
C12_CorruptSnapshotNotOpened ==
    [][(/\ ret'.op = "create_collection"
        /\ ret'.path \notin DOMAIN registry
        /\ ret'.path \in DOMAIN disk
        /\ IsCorrupt(disk[ret'.path]))
       => ~ret'.ok /\ ret'.path \notin DOMAIN registry']_vars

\* C12, the two cases the load does refuse: an unparsable metadata.json and
\* a non-numeric vectors key.
C12_UnreadableSnapshotNotOpened ==
    [][(/\ ret'.op = "create_collection"
        /\ ret'.path \notin DOMAIN registry
        /\ ret'.path \in DOMAIN disk
        /\ \/ ~disk[ret'.path].parsable
           \/ \E s \in DOMAIN disk[ret'.path].meta.vectors : ~IsNumeric(s))
       => ~ret'.ok /\ registry' = registry]_vars

\* C13: insert_vector with a vector whose length differs from the
\* collection's dimensions fails with a dimension-mismatch error and leaves
\* the collection (and the disk) as it was, and after every facade step
\* every stored vector of every open collection has length dimensions.
C13_WrongLengthRefused ==
    [][/\ (/\ ret'.op = "insert_vector"
            /\ ret'.path \in DOMAIN registry
            /\ Len(ret'.arg) # registry[ret'.path].dimensions)
           => /\ ~ret'.ok
              /\ ret'.err = "dimension_mismatch"
              /\ registry' = registry
              /\ disk' = disk
       /\ \A p \in DOMAIN registry' :
             /\ \A i \in DOMAIN registry'[p].vectors :
                   Len(registry'[p].vectors[i]) = registry'[p].dimensions
             /\ \A n \in registry'[p].hnsw : Len(n.v) = registry'[p].dimensions]_vars

\* A vector of the wrong length was refused by a collection that holds a
\* stored vector and is clean.
C13_Witness ==
    /\ ret.op = "insert_vector"
    /\ ret.err = "dimension_mismatch"
    /\ ret.path \in DOMAIN registry
    /\ Len(ret.arg) # registry[ret.path].dimensions
    /\ registry[ret.path].vectors # EmptyMap
    /\ ~registry[ret.path].dirty

\* C14: insert_vector, delete_vector, build_index, search and stats called
\* with a path that is not in the registry fail with a not-found error, and
\* the registry, its collections and the disk are as they were.
C14_UnknownPathNotFound ==
    /\ [](\A p \in Paths \ DOMAIN registry :
            /\ stats_call(registry, disk, p).err = "not_found"
            /\ \A query \in Vectors, k \in 0..MaxK :
                  /\ search_call(registry, p, query, k).err = "not_found"
                  /\ search_call(registry, p, query, k).val = <<>>)
    /\ [][(/\ ret'.op \in {"insert_vector", "delete_vector", "build_index"}
            /\ ret'.path \notin DOMAIN registry)
           => /\ ~ret'.ok
              /\ ret'.err = "not_found"
              /\ registry' = registry
              /\ disk' = disk]_vars

\* build_index was refused for a path that has a snapshot on disk and is
\* not open in this process.
C14_Witness ==
    /\ ret.op = "build_index"
    /\ ret.err = "not_found"
    /\ ret.path \in DOMAIN disk
    /\ ret.path \notin DOMAIN registry

(***************************************************************************)
(* Search bounds, checkpoint effects and the collection's invariants.      *)
(***************************************************************************)
\* C15: in every reachable state a search returns at most k results, and
\* returns none when the collection has no live entry (active_count = 0),
\* whatever tombstoned or replaced nodes the graph still holds.
C15_AtMostK ==
    \A p \in DOMAIN registry :
        \A query \in Queries(registry[p]), k \in 0..MaxK :
            LET r == search_call(registry, p, query, k)
            IN  /\ r.err = "ok"
                /\ Len(r.val) <= k
                /\ active_count(registry[p]) = 0 => r.val = <<>>

\* No live entry, while the graph holds a tombstoned node and a replaced one.
C15_Witness ==
    \E p \in DOMAIN registry :
        /\ active_count(registry[p]) = 0
        /\ registry[p].deleted_ids # {}
        /\ \E n \in registry[p].hnsw : n.d_id \notin DOMAIN registry[p].reverse_map
        /\ \E n \in registry[p].hnsw :
              /\ n.d_id \in DOMAIN registry[p].reverse_map
              /\ registry[p].reverse_map[n.d_id] \in registry[p].deleted_ids

\* C16: after a build_index that succeeded the tombstone set is empty,
\* every external id tombstoned before the call is absent from id_map and
\* its internal id from the vector store and reverse_map, the snapshot
\* written holds no tombstone, and dirty is false.
C16_CheckpointClearsTombstones ==
    [][(ret'.op = "build_index" /\ ret'.ok)
       => LET before == registry[ret'.path]
              after == registry'[ret'.path]
          IN  /\ after.deleted_ids = {}
              /\ ~after.dirty
              /\ \A x \in before.deleted_ids :
                    /\ x \notin DOMAIN after.id_map
                    /\ x \in DOMAIN before.id_map =>
                          /\ before.id_map[x] \notin DOMAIN after.vectors
                          /\ before.id_map[x] \notin DOMAIN after.reverse_map
              /\ disk'[ret'.path].parsable
              /\ disk'[ret'.path].meta.deleted_ids = {}
              /\ \A x \in before.deleted_ids :
                    x \notin DOMAIN disk'[ret'.path].meta.id_map]_vars

\* A build_index succeeded with a tombstone pending, on a collection that
\* keeps another, live, id.
C16_Witness ==
    /\ ret.op = "build_index" /\ ret.ok /\ ret.val
    /\ registry[ret.path].id_map # EmptyMap
    /\ registry[ret.path].deleted_ids = {}
    /\ ~registry[ret.path].dirty

LiveIds(c) == DOMAIN c.id_map \ c.deleted_ids

\* C17: build_index, whether its save succeeds or fails, changes neither
\* which external ids are live, nor the internal id a live external id maps
\* to, nor the vector stored for it, nor next_id, nor dimensions.
C17_CheckpointKeepsIds ==
    [][(ret'.op = "build_index" /\ ret'.path \in DOMAIN registry)
       => LET before == registry[ret'.path]
              after == registry'[ret'.path]
          IN  /\ LiveIds(after) = LiveIds(before)
              /\ \A x \in LiveIds(before) :
                    /\ after.id_map[x] = before.id_map[x]
                    /\ after.id_map[x] \in DOMAIN after.vectors
                    /\ after.vectors[after.id_map[x]] = before.vectors[before.id_map[x]]
              /\ after.next_id = before.next_id
              /\ after.dimensions = before.dimensions]_vars

\* A build_index compacted a tombstone away and then failed to save, on a
\* collection that keeps a live id issued after the tombstoned one.
C17_Witness ==
    /\ ret.op = "build_index" /\ ~ret.ok /\ ret.val
    /\ registry[ret.path].deleted_ids = {}
    /\ \E x \in LiveIds(registry[ret.path]) : registry[ret.path].id_map[x] > 0
    /\ Cardinality(DOMAIN registry[ret.path].vectors) < registry[ret.path].next_id

\* C18: in every state reached through insert, delete, checkpoint and the
\* reload of a snapshot a checkpoint wrote, reverse_map[id_map[x]] = x for
\* every external id x of id_map, id_map is injective, and the keys of the
\* vector store are the keys of reverse_map and the values of id_map.
C18_IdentityMapsConsistent ==
    \A p \in DOMAIN registry :
        LET c == registry[p]
        IN  /\ \A x \in DOMAIN c.id_map :
                  /\ c.id_map[x] \in DOMAIN c.reverse_map
                  /\ c.reverse_map[c.id_map[x]] = x
            /\ \A x, y \in DOMAIN c.id_map : c.id_map[x] = c.id_map[y] => x = y
            /\ DOMAIN c.vectors = DOMAIN c.reverse_map
            /\ DOMAIN c.reverse_map = Range(c.id_map)

\* A collection reloaded from a snapshot written after an upsert or a
\* compaction had retired internal id 0.
C18_Witness ==
    /\ ret.op = "create_collection" /\ ret.ok /\ ret.val
    /\ \E x \in DOMAIN registry[ret.path].id_map : registry[ret.path].id_map[x] = 1
    /\ 0 \notin DOMAIN registry[ret.path].vectors

\* C19: in every reachable state every tombstoned external id is a key of
\* id_map, so |id_map| - |tombstones| is not negative and the unsigned
\* subtraction of active_count does not underflow.
C19_TombstonesAreKnownIds ==
    \A p \in DOMAIN registry :
        /\ registry[p].deleted_ids \subseteq DOMAIN registry[p].id_map
        /\ Cardinality(registry[p].deleted_ids) <= Cardinality(DOMAIN registry[p].id_map)
        /\ active_count(registry[p]) >= 0

\* Every id of a collection that holds two is tombstoned, after a delete of
\* an id that was already tombstoned returned false.
C19_Witness ==
    /\ ret.op = "delete_vector" /\ ret.ok /\ ~ret.val
    /\ ret.id \in registry[ret.path].deleted_ids
    /\ Cardinality(registry[ret.path].deleted_ids) = 2
    /\ active_count(registry[ret.path]) = 0

\* The persistent state of c is what the snapshot f holds.
SameAsSnapshot(c, f) ==
    /\ f.parsable
    /\ f.meta.dimensions = c.dimensions
    /\ f.meta.next_id = c.next_id
    /\ f.meta.id_map = c.id_map
    /\ f.meta.deleted_ids = c.deleted_ids
    /\ \A s \in DOMAIN f.meta.vectors : IsNumeric(s) /\ IsBase64(f.meta.vectors[s])
    /\ LoadedVectors(f.meta) = c.vectors

NeverSaved(c) ==
    /\ c.next_id = 0
    /\ c.id_map = EmptyMap
    /\ c.vectors = EmptyMap
    /\ c.deleted_ids = {}

\* C20, as stated: when dirty is false the in-memory persistent state
\* equals the content of the snapshot on disk, or the collection is empty
\* with next_id 0 and no snapshot exists.
C20_CleanMeansOnDisk ==
    \A p \in DOMAIN registry :
        ~registry[p].dirty =>
            \/ p \in DOMAIN disk /\ SameAsSnapshot(registry[p], disk[p])
            \/ p \notin DOMAIN disk /\ NeverSaved(registry[p])

\* C20, corrected: when dirty is false the in-memory persistent state
\* equals the content of the snapshot on disk, or the collection is empty
\* with next_id 0 and no snapshot exists, or the file on disk is the
\* unreadable remainder of a save that failed while writing; and a
\* build_index whose save fails leaves dirty as it was.
C20_CleanMeansOnDiskOrTorn ==
    /\ [](\A p \in DOMAIN registry :
            ~registry[p].dirty =>
                \/ p \in DOMAIN disk /\ SameAsSnapshot(registry[p], disk[p])
                \/ p \notin DOMAIN disk /\ NeverSaved(registry[p])
                \/ p \in DOMAIN disk /\ disk[p] = TornFile)
    /\ [][(ret'.op = "build_index" /\ ~ret'.ok /\ ret'.path \in DOMAIN registry)
           => registry'[ret'.path].dirty = registry[ret'.path].dirty]_vars

\* A build_index failed before writing anything, on a collection that has
\* stored vectors, an older snapshot on disk and unsaved changes.
C20_Witness ==
    /\ ret.op = "build_index" /\ ~ret.ok
    /\ ret.path \in DOMAIN registry
    /\ registry[ret.path].dirty
    /\ registry[ret.path].vectors # EmptyMap
    /\ ret.path \in DOMAIN disk
    /\ disk[ret.path].parsable
    /\ ~SameAsSnapshot(registry[ret.path], disk[ret.path])

====
